---- MODULE Spec2Model ----
(***************************************************************************)
(* A model of pynux.utils.Nuxeo (src/pynux/utils.py):                      *)
(*   - the paged result generator  _get_page / _get_iter  (lines 43-57)    *)
(*   - the file importer calls  call_file_importer_api, import_one_folder  *)
(*     and import_status_wait  (lines 158-205)                             *)
(* together with the remote service they talk to, which is the             *)
(* environment: it answers each request as it arrives.                     *)
(***************************************************************************)
EXTENDS Integers, Sequences, FiniteSets, TLC

\* ------------------------------------------------------------------ bounds
\* the server's result set has at most MaxPages pages
MaxPages == 3
\* a page holds at most MaxPageSize entries
MaxPageSize == 2
\* pulls made on a generator after it has ended
MaxEndPulls == 2
\* calls of the importer API each client makes
MaxCalls == 2
\* suspensions (time.sleep) within one call
MaxSleeps == 3
\* the frames of import_status_wait the interpreter lets one call nest: its
\* recursion limit (sys.getrecursionlimit(), 1000 unless set otherwise) less
\* the frames in use below and above them, scaled down
RecursionLimit == 3
\* generators made one after the other on the same params mapping
MaxStreams == 2

\* ------------------------------------------------------------------ state
VARIABLES
    \* --- one stream (a generator made by _get_iter) and its server
    gen,                 \* "created" | "running" | "suspended" | "finished"
    current_page_index,  \* the loop variable of line 52
    result_dict,         \* the page the generator is iterating (line 53)
    pos,                 \* how many entries of result_dict were yielded
    params,              \* the params mapping, shared with the caller
    params0,             \* the params mapping as the caller supplied it
    requested,           \* page indices sent to the server, in order
    served,              \* the server's answers, in order
    yielded,             \* documents handed to the consumer, in order
    raised,              \* how the generator ended: "none" while it has not
    endPulls,            \* pulls made after the generator ended
    pullReqs,            \* requests sent within the current (or last) pull
    streams,             \* generators made so far
    \* --- the clients of the file importer and its server
    workload,            \* who calls, and with which arguments (fixed)
    pc,                  \* per client: "idle" | "status" | "sleep" | "run"
    call,                \* per client: the call in progress or just ended
    phase,               \* per client: 1 = the wait of line 185, 2 = the wait
                         \*   of line 188, 0 = import_status_wait called directly
    depth,               \* per client: import_status_wait frames below the first
    log,                 \* per client: the requests of the call, with replies
                         \*   and the number of jobs the server had accepted
    sleeps,              \* per client: the durations slept in the call
    outcome,             \* per client: "none" | "returned" | "TypeError" |
                         \*   "HTTPError" | "RuntimeError"
    job,                 \* per client: the job its last trigger started, or 0
    calls,               \* per client: calls made so far
    jobs,                \* the server: the state of every job it accepted
    \* --- get_metadata and update_nuxeo_properties
    docPc,               \* "idle" | "get_uid" | "request"
    docCall,             \* the call in progress or just ended
    docUid,              \* the local uid of update_nuxeo_properties
    docLog,              \* the requests of the call, with their status
    docOutcome,          \* "none" | "returned" | the exception raised
    docCalls             \* calls made so far

streamVars == <<gen, current_page_index, result_dict, pos, params, params0,
                requested, served, yielded, raised, endPulls, pullReqs,
                streams>>

jobVars == <<workload, pc, call, phase, depth, log, sleeps, outcome, job,
             calls, jobs>>

docVars == <<docPc, docCall, docUid, docLog, docOutcome, docCalls>>

vars == <<streamVars, jobVars, docVars>>

\* ------------------------------------------------------- values and helpers
\* Python values of the two kinds a params mapping holds
PyInt(n) == [int |-> n]
PyStr(s) == [str |-> s]

\* the status codes of the answers a server gives: a success, a status
\* that is neither a success nor an error to raise_for_status (a 300 or 304
\* with no Location to follow), and a client error
StatusCodes == {200, 300, 404}

\* a 2xx status
IsSuccess(status) == 200 <= status /\ status < 300

\* no page fetched yet
NoPage == [status |-> 0]

\* the entries the server holds on page k when the page has n of them
Docs(k, n) == [i \in 1..n |-> [page |-> k, at |-> i]]

\* the answers the server can give to a request for page k: an error
\* status, whose body is never read, or a status of the other two kinds
\* with a JSON object whose two fields may each be missing (has_entries and
\* has_next tell which keys the object has).  The result set is finite: the
\* page of index MaxPages - 1 is the last one.
NextFlags(k) ==
    {<<FALSE, FALSE>>, <<TRUE, FALSE>>} \cup
    (IF k + 1 < MaxPages THEN {<<TRUE, TRUE>>} ELSE {})

ErrorPage ==
    [status |-> 404, has_entries |-> FALSE, entries |-> <<>>,
     has_next |-> FALSE, isNextPageAvailable |-> FALSE]

ServerPage(k) ==
    {ErrorPage} \cup
    {[status |-> s, has_entries |-> TRUE, entries |-> Docs(k, m),
      has_next |-> f[1], isNextPageAvailable |-> f[2]] :
        s \in StatusCodes \ {ErrorPage.status},
        m \in 0..MaxPageSize, f \in NextFlags(k)} \cup
    {[status |-> s, has_entries |-> FALSE, entries |-> <<>>,
      has_next |-> f[1], isNextPageAvailable |-> f[2]] :
        s \in StatusCodes \ {ErrorPage.status}, f \in NextFlags(k)}

\* dict.update({key: value})
DictUpdate(d, key, value) ==
    [x \in DOMAIN d \cup {key} |-> IF x = key THEN value ELSE d[x]]

\* the params mappings a stream is created with: children() gives {},
\* nxql() gives pageSize and query, and a direct caller of _get_iter may
\* already hold a currentPageIndex from an earlier stream
EmptyDict == [x \in {} |-> PyInt(0)]
ParamsChoices ==
    { EmptyDict,
      [x \in {"pageSize", "query"} |->
          IF x = "pageSize" THEN PyStr("100")
          ELSE PyStr("SELECT * FROM Document")],
      [x \in {"currentPageIndex", "query"} |->
          IF x = "query" THEN PyStr("SELECT * FROM Document") ELSE PyInt(7)] }

RECURSIVE Concat(_)
\* the entries of a sequence of well-formed pages, one after another
Concat(pages) ==
    IF pages = <<>> THEN <<>>
    ELSE Concat(SubSeq(pages, 1, Len(pages) - 1)) \o pages[Len(pages)].entries

\* res.raise_for_status(), lines 47, 89, 106, 130, 162 and 198: whether it
\* raises.  It raises HTTPError on the statuses 400..599 and on no other.
RaiseForStatus(res) == 400 <= res.status /\ res.status < 600

\* a page that _get_page and _get_iter read without raising anything: line
\* 47 does not raise and both keys are there (lines 54 and 56)
WellFormed(p) == ~RaiseForStatus(p) /\ p.has_entries /\ p.has_next

\* ------------------------------------------------------------ file importer
Clients == {1, 2}

\* a required argument passed as None
None == "<None>"
\* the values the four required arguments are drawn from
FieldValues == {None, "", "File"}
\* Python truthiness of such a value
Truthy(v) == v # None /\ v # ""

\* sleep=20, line 191
DefaultSleep == 20
\* the intervals a direct caller of import_status_wait passes
SleepChoices == {DefaultSleep, 5}

\* the bodies the status endpoint sends while an import runs
BusyBodies == {"Running", ""}

NoCall ==
    [op |-> "none", leaf_type |-> None, input_path |-> None,
     target_path |-> None, folderish_type |-> None, wait |-> FALSE,
     sleep |-> DefaultSleep]

InitIdle ==
    /\ workload = [clients |-> {}, waits |-> {}, fields |-> {},
                   statuses |-> {}, calls |-> 0]
    /\ pc = [c \in Clients |-> "idle"]
    /\ call = [c \in Clients |-> NoCall]
    /\ phase = [c \in Clients |-> 0]
    /\ depth = [c \in Clients |-> 0]
    /\ log = [c \in Clients |-> <<>>]
    /\ sleeps = [c \in Clients |-> <<>>]
    /\ outcome = [c \in Clients |-> "none"]
    /\ job = [c \in Clients |-> 0]
    /\ calls = [c \in Clients |-> 0]
    /\ jobs = <<>>

\* the jobs the server has accepted and not finished
InFlight == {j \in 1..Len(jobs) : jobs[j] # "finished"}

\* the text of the status endpoint: 'Not Running' unless an import runs
StatusBodies ==
    IF \E j \in 1..Len(jobs) : jobs[j] = "running"
    THEN BusyBodies ELSE {"Not Running"}

\* line 176: not leaf_type and input_path and target_path and folderish_type
\* ("not" binds tighter than "and")
MissingRequired(a) ==
    (~Truthy(a.leaf_type)) /\ Truthy(a.input_path) /\ Truthy(a.target_path)
        /\ Truthy(a.folderish_type)

\* a faulty variant: the wait flag is ignored and the status is always polled
Impatient_Never(wait) == FALSE

\* line 193: if not wait
Impatient(wait) == ~wait

\* line 199: res.text == 'Not Running'
IsNotRunning(body) == body = "Not Running"

\* the call of client c ends: how, and with every frame gone
Finish(c, how) ==
    /\ pc' = [pc EXCEPT ![c] = "idle"]
    /\ outcome' = [outcome EXCEPT ![c] = how]
    /\ depth' = [depth EXCEPT ![c] = 0]

\* lines 173-185: import_one_folder is called, checks its arguments and
\* enters its first import_status_wait, up to that call's first request
import_one_folder(c) ==
    /\ pc[c] = "idle"
    /\ calls[c] < workload.calls
    /\ \E lt \in workload.fields, ip \in workload.fields,
          tp \in workload.fields, ft \in workload.fields,
          w \in workload.waits :
        LET a == [op |-> "import_one_folder", leaf_type |-> lt,
                  input_path |-> ip, target_path |-> tp,
                  folderish_type |-> ft, wait |-> w, sleep |-> DefaultSleep]
        IN  /\ call' = [call EXCEPT ![c] = a]
            /\ IF MissingRequired(a)
               THEN \* raise TypeError("missing required value"), line 177
                    /\ Finish(c, "TypeError")
                    /\ phase' = [phase EXCEPT ![c] = 0]
               ELSE IF Impatient(w)
               THEN \* line 185 returns True at once: on to line 186
                    /\ pc' = [pc EXCEPT ![c] = "run"]
                    /\ outcome' = [outcome EXCEPT ![c] = "none"]
                    /\ depth' = [depth EXCEPT ![c] = 0]
                    /\ phase' = [phase EXCEPT ![c] = 1]
               ELSE /\ pc' = [pc EXCEPT ![c] = "status"]
                    /\ outcome' = [outcome EXCEPT ![c] = "none"]
                    /\ depth' = [depth EXCEPT ![c] = 0]
                    /\ phase' = [phase EXCEPT ![c] = 1]
    /\ calls' = [calls EXCEPT ![c] = @ + 1]
    /\ log' = [log EXCEPT ![c] = <<>>]
    /\ sleeps' = [sleeps EXCEPT ![c] = <<>>]
    /\ job' = [job EXCEPT ![c] = 0]
    /\ UNCHANGED <<workload, jobs>>

\* lines 191-194: import_status_wait is called by the user of the library,
\* up to its first request
import_status_wait(c) ==
    /\ pc[c] = "idle"
    /\ calls[c] < workload.calls
    /\ \E w \in workload.waits, sl \in SleepChoices :
        /\ call' = [call EXCEPT ![c] =
              [NoCall EXCEPT !.op = "import_status_wait", !.wait = w,
                             !.sleep = sl]]
        /\ IF Impatient(w)
           THEN Finish(c, "returned")
           ELSE /\ pc' = [pc EXCEPT ![c] = "status"]
                /\ outcome' = [outcome EXCEPT ![c] = "none"]
                /\ depth' = [depth EXCEPT ![c] = 0]
    /\ phase' = [phase EXCEPT ![c] = 0]
    /\ calls' = [calls EXCEPT ![c] = @ + 1]
    /\ log' = [log EXCEPT ![c] = <<>>]
    /\ sleeps' = [sleeps EXCEPT ![c] = <<>>]
    /\ job' = [job EXCEPT ![c] = 0]
    /\ UNCHANGED <<workload, jobs>>

\* lines 196-201: one status request and its answer.  'Not Running' returns
\* from every frame of import_status_wait: to line 186 from the first wait
\* of import_one_folder, to the caller otherwise.
status_poll(c) ==
    /\ pc[c] = "status"
    /\ \E res \in {[status |-> s, text |-> ""] :
                      s \in workload.statuses \cap {ErrorPage.status}} \cup
                  {[status |-> s, text |-> b] :
                      s \in workload.statuses \ {ErrorPage.status},
                      b \in StatusBodies} :
        /\ log' = [log EXCEPT ![c] =
              Append(@, [verb |-> "status", status |-> res.status,
                         text |-> res.text, accepted |-> Len(jobs)])]
        /\ IF RaiseForStatus(res)
           THEN \* line 198
                Finish(c, "HTTPError")
           ELSE IF IsNotRunning(res.text)
           THEN IF phase[c] = 1
                THEN /\ pc' = [pc EXCEPT ![c] = "run"]
                     /\ depth' = [depth EXCEPT ![c] = 0]
                     /\ UNCHANGED outcome
                ELSE Finish(c, "returned")
           ELSE /\ pc' = [pc EXCEPT ![c] = "sleep"]
                /\ UNCHANGED <<outcome, depth>>
    /\ UNCHANGED <<workload, call, phase, sleeps, job, calls, jobs>>

\* the interval of the time.sleep of line 202 in the frame at depth d: the
\* sleep argument of the first frame, the default in the frames that line
\* 205 calls without arguments
SleepOf(c, d) == IF d = 0 THEN call[c].sleep ELSE DefaultSleep

\* line 205 is a call made from the frame at depth d, never a loop: whether
\* the interpreter still has a frame for it
StackLeft(d) == d + 1 < RecursionLimit

\* lines 202-205: the suspension, the progress dot, and the call of
\* import_status_wait() by itself, up to its request; the call raises
\* RuntimeError (maximum recursion depth exceeded) when no frame is left
sleep(c) ==
    /\ pc[c] = "sleep"
    /\ Len(sleeps[c]) < MaxSleeps
    /\ sleeps' = [sleeps EXCEPT ![c] = Append(@, SleepOf(c, depth[c]))]
    /\ IF StackLeft(depth[c])
       THEN /\ depth' = [depth EXCEPT ![c] = @ + 1]
            /\ pc' = [pc EXCEPT ![c] = "status"]
            /\ UNCHANGED outcome
       ELSE Finish(c, "RuntimeError")
    /\ UNCHANGED <<workload, call, phase, log, job, calls, jobs>>

\* a faulty variant: the trigger is held back while a job is in flight
TriggerReady_Locked(c) == pc[c] = "run" /\ InFlight = {}

\* line 186 is reached as soon as line 185 has returned, and nothing else
\* is looked at before the request is sent
TriggerReady(c) == pc[c] = "run"

\* lines 158-163 and 186-189: the trigger request.  A server that accepts
\* it (a 2xx answer) starts the job at once or queues it, and a server that
\* answers anything else has taken no job; then, unless the answer made
\* line 162 raise, import_one_folder enters its second import_status_wait,
\* up to that call's first request.
run(c) ==
    /\ TriggerReady(c)
    /\ \E res \in {[status |-> s, state |-> "none"] :
                      s \in {t \in workload.statuses : ~IsSuccess(t)}} \cup
                  {[status |-> s, state |-> st] :
                      s \in {t \in workload.statuses : IsSuccess(t)},
                      st \in {"queued", "running"}} :
        /\ log' = [log EXCEPT ![c] =
              Append(@, [verb |-> "run", status |-> res.status,
                         text |-> "", accepted |-> Len(jobs)])]
        /\ IF RaiseForStatus(res)
           THEN \* line 162
                /\ Finish(c, "HTTPError")
                /\ UNCHANGED <<jobs, job, phase>>
           ELSE /\ IF res.state = "none"
                   THEN UNCHANGED <<jobs, job>>
                   ELSE /\ jobs' = Append(jobs, res.state)
                        /\ job' = [job EXCEPT ![c] = Len(jobs) + 1]
                /\ IF Impatient(call[c].wait)
                   THEN \* line 188 returns True at once, line 189
                        /\ Finish(c, "returned")
                        /\ UNCHANGED phase
                   ELSE /\ pc' = [pc EXCEPT ![c] = "status"]
                        /\ phase' = [phase EXCEPT ![c] = 2]
                        /\ depth' = [depth EXCEPT ![c] = 0]
                        /\ UNCHANGED outcome
    /\ UNCHANGED <<workload, call, sleeps, calls>>

\* the server starts a job it had queued
server_start ==
    /\ \E j \in 1..Len(jobs) :
        /\ jobs[j] = "queued"
        /\ jobs' = [jobs EXCEPT ![j] = "running"]
    /\ UNCHANGED <<workload, pc, call, phase, depth, log, sleeps, outcome,
                   job, calls>>

\* a running job comes to its end
server_finish ==
    /\ \E j \in 1..Len(jobs) :
        /\ jobs[j] = "running"
        /\ jobs' = [jobs EXCEPT ![j] = "finished"]
    /\ UNCHANGED <<workload, pc, call, phase, depth, log, sleeps, outcome,
                   job, calls>>

\* ------------------------------------------- document metadata operations
\* the keyword arguments a caller may pass as **documentid, and their values
Keywords == {"uid", "path", "id"}
KeywordValues == {"a", "b"}

\* **documentid: a dict, as the set of its <<keyword, value>> items
DocumentIds ==
    {d \in SUBSET (Keywords \X KeywordValues) :
        \A x \in d, y \in d : x[1] = y[1] => x = y}
Keys(d) == {x[1] : x \in d}
Item(d, k) == (CHOOSE x \in d : x[1] = k)[2]

NoDocCall == [op |-> "none", documentid |-> {}, has_properties |-> FALSE]

DocIdle ==
    /\ docPc = "idle"
    /\ docCall = NoDocCall
    /\ docUid = ""
    /\ docLog = <<>>
    /\ docOutcome = "none"
    /\ docCalls = 0

\* lines 92-104: get_metadata is called and builds its url, up to its request
get_metadata ==
    /\ docPc = "idle"
    /\ docCalls < MaxCalls
    /\ docCalls' = docCalls + 1
    /\ \E d \in DocumentIds :
        /\ docCall' = [op |-> "get_metadata", documentid |-> d,
                       has_properties |-> FALSE]
        /\ docLog' = <<>>
        /\ docUid' = ""
        /\ IF Cardinality(d) # 1
           THEN \* raise TypeError("either uid or path"), line 95
                /\ docPc' = "idle"
                /\ docOutcome' = "TypeError"
           ELSE IF "path" \in Keys(d) \/ "uid" \in Keys(d)
           THEN /\ docPc' = "request"
                /\ docOutcome' = "none"
           ELSE \* raise Exception("no document id found"), line 103
                /\ docPc' = "idle"
                /\ docOutcome' = "Exception"

\* lines 122-125: the payload is built; data['properties'] raises KeyError
\* when data has no such key
BuildPayload(has_properties) ==
    IF has_properties
    THEN /\ docPc' = "request"
         /\ docOutcome' = "none"
    ELSE /\ docPc' = "idle"
         /\ docOutcome' = "KeyError"

\* lines 109-125: update_nuxeo_properties is called, up to its first
\* request: that of get_uid for path=, the PUT otherwise.  A single keyword
\* that is neither path nor uid takes neither branch and leaves uid = ''.
update_nuxeo_properties ==
    /\ docPc = "idle"
    /\ docCalls < MaxCalls
    /\ docCalls' = docCalls + 1
    /\ \E d \in DocumentIds, hp \in BOOLEAN :
        /\ docCall' = [op |-> "update_nuxeo_properties", documentid |-> d,
                       has_properties |-> hp]
        /\ docLog' = <<>>
        /\ IF Cardinality(d) # 1
           THEN \* raise TypeError("either uid or path"), line 113
                /\ docPc' = "idle"
                /\ docOutcome' = "TypeError"
                /\ docUid' = ""
           ELSE IF "path" \in Keys(d)
           THEN \* uid = self.get_uid(documentid['path']), line 115
                /\ docPc' = "get_uid"
                /\ docOutcome' = "none"
                /\ docUid' = ""
           ELSE /\ docUid' = IF "uid" \in Keys(d) THEN Item(d, "uid") ELSE ""
                /\ BuildPayload(hp)

\* lines 84-90 called from line 115: the request of get_uid and its answer,
\* then the payload
get_uid ==
    /\ docPc = "get_uid"
    /\ \E res \in [status : StatusCodes, uid : KeywordValues] :
        /\ docLog' = Append(docLog, [verb |-> "GET", kind |-> "path",
                                     ref |-> Item(docCall.documentid, "path"),
                                     status |-> res.status])
        /\ IF RaiseForStatus(res)
           THEN /\ docPc' = "idle"
                /\ docOutcome' = "HTTPError"
                /\ UNCHANGED docUid
           ELSE /\ docUid' = res.uid
                /\ BuildPayload(docCall.has_properties)
    /\ UNCHANGED <<docCall, docCalls>>

\* lines 105-107 and 126-131: the request of the operation and its answer
doc_request ==
    /\ docPc = "request"
    /\ \E res \in [status : StatusCodes] :
        /\ docLog' = Append(docLog,
              IF docCall.op = "get_metadata"
              THEN [verb |-> "GET",
                    kind |-> IF "path" \in Keys(docCall.documentid)
                             THEN "path" ELSE "id",
                    ref |-> IF "path" \in Keys(docCall.documentid)
                            THEN Item(docCall.documentid, "path")
                            ELSE Item(docCall.documentid, "uid"),
                    status |-> res.status]
              ELSE [verb |-> "PUT", kind |-> "id", ref |-> docUid,
                    status |-> res.status])
        /\ docOutcome' = IF RaiseForStatus(res) THEN "HTTPError" ELSE "returned"
    /\ docPc' = "idle"
    /\ UNCHANGED <<docCall, docUid, docCalls>>

\* ------------------------------------------------------------------ stream
InitStream ==
    /\ gen = "created"
    /\ current_page_index = 0
    /\ result_dict = NoPage
    /\ pos = 0
    /\ params0 \in ParamsChoices
    /\ params = params0
    /\ requested = <<>>
    /\ served = <<>>
    /\ yielded = <<>>
    /\ raised = "none"
    /\ endPulls = 0
    /\ pullReqs = 0
    /\ streams = 1
    /\ InitIdle
    /\ DocIdle

\* a faulty variant: the page index never advances
NextIndex_Stuck(i) == i

\* itertools.count(), line 52: the step from one index to the next
NextIndex(i) == i + 1

\* a faulty variant: an empty page is taken for the end of the results
AfterEntries_StopOnEmpty(rd) ==
    IF ~rd.has_next
    THEN [gen |-> "finished", raised |-> "KeyError", index |-> current_page_index]
    ELSE IF ~rd.isNextPageAvailable \/ rd.entries = <<>>
    THEN [gen |-> "finished", raised |-> "StopIteration", index |-> current_page_index]
    ELSE [gen |-> "running", raised |-> "none",
          index |-> NextIndex(current_page_index)]

\* lines 56-57 and the loop header of line 52, reached when the for loop
\* over result_dict['entries'] is exhausted: a missing isNextPageAvailable
\* is a KeyError, a false one ends the generator, a true one moves on to
\* the request for the next index
AfterEntries(rd) ==
    IF ~rd.has_next
    THEN [gen |-> "finished", raised |-> "KeyError", index |-> current_page_index]
    ELSE IF ~rd.isNextPageAvailable
    THEN [gen |-> "finished", raised |-> "StopIteration", index |-> current_page_index]
    ELSE [gen |-> "running", raised |-> "none",
          index |-> NextIndex(current_page_index)]

\* a faulty variant: the mapping is rebuilt instead of updated
UpdateParams_Replace(p, index) ==
    [x \in {"currentPageIndex"} |-> PyInt(index)]

\* params.update({'currentPageIndex': current_page_index}), line 45
UpdateParams(p, index) == DictUpdate(p, "currentPageIndex", PyInt(index))

\* itertools.count(), line 52: the index it starts at
FirstIndex_FromParams ==
    IF "currentPageIndex" \in DOMAIN params
    THEN params["currentPageIndex"].int ELSE 0

FirstIndex == 0

\* a faulty variant: the entries of a fetched page are passed over
HasEntries_Never(res) == FALSE

\* line 54, entered with a fresh page: whether the for loop has a first item
HasEntries(res) == Len(res.entries) > 0

\* a faulty variant: what is left of the page is dropped at the next pull
HasBuffered_Never(rd, p) == FALSE

\* line 54, resumed after a yield: whether the for loop has a further item
HasBuffered(rd, p) == p < Len(rd.entries)

\* line 53: one call of _get_page, the request and its answer, and the
\* generator's run from there to its next yield, its end, or the next request
get_page ==
    /\ gen = "running"
    /\ params' = UpdateParams(params, current_page_index)
    /\ requested' = Append(requested, current_page_index)
    /\ \E res \in ServerPage(current_page_index) :
        /\ served' = Append(served, res)
        /\ IF RaiseForStatus(res)
           THEN \* line 47
                /\ gen' = "finished"
                /\ raised' = "HTTPError"
                /\ UNCHANGED <<current_page_index, result_dict, pos, yielded>>
           ELSE IF ~res.has_entries
           THEN \* result_dict['entries'], line 54
                /\ gen' = "finished"
                /\ raised' = "KeyError"
                /\ result_dict' = res
                /\ UNCHANGED <<current_page_index, pos, yielded>>
           ELSE IF HasEntries(res)
           THEN \* yield document, line 55
                /\ gen' = "suspended"
                /\ result_dict' = res
                /\ pos' = 1
                /\ yielded' = Append(yielded, res.entries[1])
                /\ UNCHANGED <<current_page_index, raised>>
           ELSE /\ gen' = AfterEntries(res).gen
                /\ raised' = AfterEntries(res).raised
                /\ current_page_index' = AfterEntries(res).index
                /\ result_dict' = res
                /\ pos' = 0
                /\ UNCHANGED yielded
    /\ pullReqs' = pullReqs + 1
    /\ UNCHANGED <<params0, endPulls, streams>>

\* the consumer's next() on the generator: the generator runs from where
\* it stands to its next yield, its end, or its next request
get_iter_next ==
    /\ gen \in {"created", "suspended", "finished"}
    /\ IF gen = "created"
       THEN \* itertools.count() starts at 0, line 52
            /\ gen' = "running"
            /\ current_page_index' = FirstIndex
            /\ UNCHANGED <<result_dict, pos, yielded, raised, endPulls>>
       ELSE IF gen = "finished"
       THEN \* an ended generator raises StopIteration on every pull
            /\ endPulls < MaxEndPulls
            /\ endPulls' = endPulls + 1
            /\ UNCHANGED <<gen, current_page_index, result_dict, pos, yielded,
                           raised>>
       ELSE IF HasBuffered(result_dict, pos)
       THEN \* the for loop of line 54 goes on
            /\ pos' = pos + 1
            /\ yielded' = Append(yielded, result_dict.entries[pos + 1])
            /\ UNCHANGED <<gen, current_page_index, result_dict, raised,
                           endPulls>>
       ELSE /\ gen' = AfterEntries(result_dict).gen
            /\ raised' = AfterEntries(result_dict).raised
            /\ current_page_index' = AfterEntries(result_dict).index
            /\ UNCHANGED <<result_dict, pos, yielded, endPulls>>
    /\ pullReqs' = 0
    /\ UNCHANGED <<params, params0, requested, served, streams>>

\* lines 50-51, 71 and 82: _get_iter is called again once the generator
\* it made before has ended, with the params mapping that generator used
\* or with a new one.  The call makes the generator object and runs
\* nothing of its body.
get_iter ==
    /\ gen = "finished"
    /\ streams < MaxStreams
    /\ streams' = streams + 1
    /\ \E p \in {params} \cup ParamsChoices :
        /\ params0' = p
        /\ params' = p
    /\ gen' = "created"
    /\ current_page_index' = 0
    /\ result_dict' = NoPage
    /\ pos' = 0
    /\ requested' = <<>>
    /\ served' = <<>>
    /\ yielded' = <<>>
    /\ raised' = "none"
    /\ endPulls' = 0
    /\ pullReqs' = 0

NextStream ==
    \/ get_page /\ UNCHANGED <<jobVars, docVars>>
    \/ get_iter_next /\ UNCHANGED <<jobVars, docVars>>
    \/ get_iter /\ UNCHANGED <<jobVars, docVars>>

SpecStream == InitStream /\ [][NextStream]_vars

\* the stream variables of a behaviour that is about the importer
StreamUnused ==
    /\ gen = "created"
    /\ current_page_index = 0
    /\ result_dict = NoPage
    /\ pos = 0
    /\ params0 = EmptyDict
    /\ params = EmptyDict
    /\ requested = <<>>
    /\ served = <<>>
    /\ yielded = <<>>
    /\ raised = "none"
    /\ endPulls = 0
    /\ pullReqs = 0
    /\ streams = 1

InitWorkload(w) ==
    /\ StreamUnused
    /\ DocIdle
    /\ workload = w
    /\ pc = [c \in Clients |-> "idle"]
    /\ call = [c \in Clients |-> NoCall]
    /\ phase = [c \in Clients |-> 0]
    /\ depth = [c \in Clients |-> 0]
    /\ log = [c \in Clients |-> <<>>]
    /\ sleeps = [c \in Clients |-> <<>>]
    /\ outcome = [c \in Clients |-> "none"]
    /\ job = [c \in Clients |-> 0]
    /\ calls = [c \in Clients |-> 0]
    /\ jobs = <<>>

\* import_one_folder and the server
NextImport ==
    \/ \E c \in workload.clients :
          (import_one_folder(c) \/ status_poll(c) \/ sleep(c) \/ run(c))
              /\ UNCHANGED <<streamVars, docVars>>
    \/ (server_start \/ server_finish) /\ UNCHANGED <<streamVars, docVars>>

\* ... and import_status_wait called on its own
NextJob ==
    \/ NextImport
    \/ \E c \in workload.clients :
          import_status_wait(c) /\ UNCHANGED <<streamVars, docVars>>

\* one client that makes either call, with wait true or false and the four
\* arguments of import_one_folder given
InitJob == InitWorkload([clients |-> {1}, waits |-> BOOLEAN,
                         fields |-> {"File"}, statuses |-> StatusCodes,
                         calls |-> MaxCalls])
SpecJob == InitJob /\ [][NextJob]_vars

\* one client that calls import_one_folder once, with any arguments
InitArgs == InitWorkload([clients |-> {1}, waits |-> BOOLEAN,
                          fields |-> FieldValues, statuses |-> StatusCodes,
                          calls |-> 1])
SpecArgs == InitArgs /\ [][NextImport]_vars

\* one client that only calls import_one_folder with wait=True
InitSolo == InitWorkload([clients |-> {1}, waits |-> {TRUE},
                          fields |-> FieldValues, statuses |-> StatusCodes,
                          calls |-> MaxCalls])
SpecSolo == InitSolo /\ [][NextImport]_vars

\* two clients that each call import_one_folder once, with wait=True and
\* all four arguments given, and a server whose answers are successes or
\* errors
InitDuo == InitWorkload([clients |-> Clients, waits |-> {TRUE},
                         fields |-> {"File"},
                         statuses |-> {s \in StatusCodes :
                                         IsSuccess(s) \/ s = ErrorPage.status},
                         calls |-> 1])
SpecDuo == InitDuo /\ [][NextImport]_vars

\* the document metadata operations, called one after the other
InitDoc ==
    /\ StreamUnused
    /\ InitIdle
    /\ DocIdle

NextDoc ==
    \/ get_metadata /\ UNCHANGED <<streamVars, jobVars>>
    \/ update_nuxeo_properties /\ UNCHANGED <<streamVars, jobVars>>
    \/ get_uid /\ UNCHANGED <<streamVars, jobVars>>
    \/ doc_request /\ UNCHANGED <<streamVars, jobVars>>

SpecDoc == InitDoc /\ [][NextDoc]_vars

\* ==================================================================
\* Properties of the stream
\* ==================================================================
IndexSeq(n) == [i \in 1..n |-> i - 1]

AllWellFormed(pages) == \A i \in 1..Len(pages) : WellFormed(pages[i])

IsPrefix(s, t) == Len(s) <= Len(t) /\ s = SubSeq(t, 1, Len(s))

\* C1: when every request is answered with a well-formed page (a success,
\* or any other answer the client reads as one), the stream
\* requests the page indices 0, 1, ..., N-1 once each and in that order,
\* where isNextPageAvailable is true on all the pages but the last; what it
\* yields is at every moment a prefix of the concatenation of the pages'
\* entries, it is never stuck before its end, and when it has ended it has
\* ended cleanly, on the page that says false, having yielded the whole
\* concatenation.
C1_StreamYieldsConcatenation ==
    AllWellFormed(served) =>
        /\ requested = IndexSeq(Len(served))
        /\ \A i \in 1..Len(served) - 1 : served[i].isNextPageAvailable
        /\ IsPrefix(yielded, Concat(served))
        /\ gen # "finished" => ENABLED NextStream
        /\ gen = "finished" =>
              /\ raised = "StopIteration"
              /\ served # <<>>
              /\ ~served[Len(served)].isNextPageAvailable
              /\ yielded = Concat(served)

\* a stream over three pages, one of them empty, consumed to its clean end
C1_Witness ==
    /\ gen = "finished" /\ raised = "StopIteration"
    /\ Len(served) = 3 /\ AllWellFormed(served)
    /\ \E i \in 1..3 : served[i].entries = <<>>
    /\ Len(yielded) >= 3

\* C3: a page request that returns a non-success status, after pages that
\* succeeded, were well-formed and said isNextPageAvailable, is the last
\* request the stream makes: it ends the stream with the request error in
\* the very step of that request, after exactly the entries of the pages
\* before it, which were requested as 0, 1, ..., k-1.
C3_ErrorEndsStream ==
    \A k \in 1..Len(served) :
        (/\ ~IsSuccess(served[k].status)
         /\ \A i \in 1..k - 1 :
               /\ IsSuccess(served[i].status)
               /\ WellFormed(served[i])
               /\ served[i].isNextPageAvailable) =>
            /\ k = Len(served)
            /\ requested = IndexSeq(k)
            /\ gen = "finished" /\ raised = "HTTPError"
            /\ yielded = Concat(SubSeq(served, 1, k - 1))

\* C7: a well-formed page with no entries and isNextPageAvailable true never
\* ends the stream: the next index has been requested, or is the request
\* the generator is about to make; and a stream that ended cleanly ended on
\* a page whose isNextPageAvailable is false.
C7_EmptyPageContinues ==
    /\ \A i \in 1..Len(served) :
          (WellFormed(served[i]) /\ served[i].entries = <<>>
                                 /\ served[i].isNextPageAvailable) =>
              \/ Len(requested) > i /\ requested[i + 1] = i
              \/ Len(requested) = i /\ gen = "running" /\ current_page_index = i
    /\ raised = "StopIteration" =>
          served # <<>> /\ ~served[Len(served)].isNextPageAvailable

\* two empty pages in a row, then a page whose entries were yielded
C7_Witness ==
    /\ Len(served) = 3
    /\ IsSuccess(served[1].status) /\ served[1].has_entries
    /\ served[1].entries = <<>> /\ served[1].isNextPageAvailable
    /\ IsSuccess(served[2].status) /\ served[2].has_entries
    /\ served[2].entries = <<>> /\ served[2].isNextPageAvailable
    /\ Len(yielded) = 2

\* C8: every page fetch sets currentPageIndex to the requested index and
\* leaves every other key of the caller's mapping as it was: before the
\* first fetch the mapping is the caller's, after it the mapping has the
\* caller's keys and currentPageIndex, which holds the last index requested.
C8_ParamsFrame ==
    /\ \A key \in DOMAIN params0 \ {"currentPageIndex"} :
          key \in DOMAIN params /\ params[key] = params0[key]
    /\ requested = <<>> => params = params0
    /\ requested # <<>> =>
          /\ DOMAIN params = DOMAIN params0 \cup {"currentPageIndex"}
          /\ params["currentPageIndex"] = PyInt(requested[Len(requested)])

\* three fetches on the mapping nxql() builds
C8_Witness ==
    /\ Len(requested) = 3
    /\ "pageSize" \in DOMAIN params0
    /\ params["pageSize"] = PyStr("100")
    /\ params["currentPageIndex"] = PyInt(2)

\* C11: a successful response for page k that lacks entries or lacks
\* isNextPageAvailable makes the fetch of page k itself fail: the stream is
\* over with the error, it has yielded the entries of the pages before k and
\* nothing of page k, and page k is the last page requested.
C11_MalformedPageFailsTheFetch ==
    \A k \in 1..Len(served) :
        (IsSuccess(served[k].status) /\ ~WellFormed(served[k])) =>
            /\ k = Len(served)
            /\ gen = "finished" /\ raised = "KeyError"
            /\ yielded = Concat(SubSeq(served, 1, k - 1))

\* C12, as the spec has it: a pull sends at most one request.
C12_AtMostOneRequestPerPull == pullReqs <= 1

\* C12, amended: a pull sends no request while entries of the current page
\* are left; at a page boundary it sends one request, and one more for each
\* page it is answered that is empty and says isNextPageAvailable: every
\* page fetched within a pull but the last one is such a page.
C12_RequestsPerPull ==
    LET n == Len(served)
    IN  /\ pullReqs <= n
        /\ \A i \in (n - pullReqs + 1)..(n - 1) :
              /\ WellFormed(served[i])
              /\ served[i].entries = <<>>
              /\ served[i].isNextPageAvailable
        /\ gen = "created" => pullReqs = 0
        /\ (gen = "suspended" /\ pos > 1) => pullReqs = 0
        /\ (gen = "suspended" /\ pos = 1) => pullReqs >= 1
        /\ (gen = "finished" /\ endPulls > 0) => pullReqs = 0

\* one pull that went through two empty pages and yielded from the third
C12_Witness ==
    /\ pullReqs = 3 /\ gen = "suspended" /\ pos = 1
    /\ Len(served) = 3 /\ Len(yielded) = 1

\* C16: a generator that has ended stays ended: further pulls yield nothing
\* and request nothing; and every generator, also one made on a params
\* mapping in which an earlier one left a currentPageIndex, requests page 0
\* first.
C16_OneShot ==
    /\ [](requested # <<>> => requested[1] = 0)
    /\ [][(gen = "finished" /\ streams' = streams) =>
            /\ gen' = "finished"
            /\ raised' = raised
            /\ yielded' = yielded
            /\ requested' = requested]_vars

\* the second generator, made on the mapping the first one left at page
\* index 2, was consumed from page 0 to its end and pulled again
C16_Witness ==
    /\ streams = 2
    /\ "currentPageIndex" \in DOMAIN params0
    /\ params0["currentPageIndex"] = PyInt(2)
    /\ requested # <<>> /\ requested[1] = 0
    /\ yielded # <<>>
    /\ gen = "finished" /\ endPulls = 2

\* C17: making the generator requests nothing; the request for a page is
\* sent only when every entry of the pages before it has been yielded; the
\* requests sent are at most one more than the pages wholly consumed.
C17_DemandDriven ==
    LET n == Len(served)
        before == Concat(SubSeq(served, 1, n - 1))
        consumed == {i \in 1..n :
                        Len(yielded) >= Len(Concat(SubSeq(served, 1, i)))}
    IN  /\ gen = "created" => requested = <<>>
        /\ Len(requested) = n
        /\ n > 0 => IsPrefix(before, yielded)
        /\ Len(requested) <= 1 + Cardinality(consumed)

\* the second page was requested after both entries of the first were
\* yielded, and one entry of the second has been yielded since
C17_Witness ==
    /\ Len(requested) = 2
    /\ Len(served[1].entries) = 2 /\ Len(served[2].entries) = 2
    /\ Len(yielded) = 3
    /\ gen = "suspended"

\* ==================================================================
\* Properties of the importer calls
\* ==================================================================
AllGiven(a) ==
    Truthy(a.leaf_type) /\ Truthy(a.input_path) /\ Truthy(a.target_path)
        /\ Truthy(a.folderish_type)

IsIdleAnswer(e) ==
    e.verb = "status" /\ IsSuccess(e.status) /\ e.text = "Not Running"

IsBusyAnswer(e) ==
    e.verb = "status" /\ IsSuccess(e.status) /\ e.text # "Not Running"

IsAccepted(e) == e.verb = "run" /\ IsSuccess(e.status)

\* the status endpoint said 'Not Running', with a status that let the
\* client read it
SaidNotRunning(e) ==
    e.verb = "status" /\ e.status < 400 /\ e.text = "Not Running"

AllSucceeded(l) == \A i \in 1..Len(l) : IsSuccess(l[i].status)

\* C2: import_one_folder called with any of its four required arguments
\* empty or None, with wait true or false, raises before any request is
\* sent: the call is over with TypeError and its request log is empty.
C2_MissingFieldRaisesBeforeNetwork ==
    \A c \in workload.clients :
        (call[c].op = "import_one_folder" /\ ~AllGiven(call[c])) =>
            /\ pc[c] = "idle"
            /\ outcome[c] = "TypeError"
            /\ log[c] = <<>>

\* C4: when import_one_folder called with wait=True has returned, the job
\* its trigger request started, if the server took one, has run and finished.
C4_ReturnsAfterJobFinished ==
    \A c \in workload.clients :
        (call[c].op = "import_one_folder" /\ call[c].wait
                /\ outcome[c] = "returned" /\ job[c] # 0) =>
            jobs[job[c]] = "finished"

\* C5: import_status_wait(wait=True) whose status requests are all answered
\* with success: every answer but the last is other than 'Not Running';
\* each such answer is followed by one suspension before the next poll; the
\* call returns, and returns normally, exactly on the answer 'Not Running',
\* so after k busy answers it has made k + 1 polls and k suspensions.
C5_PollsAndSleeps ==
    \A c \in workload.clients :
        (call[c].op = "import_status_wait" /\ call[c].wait
                /\ AllSucceeded(log[c])) =>
            LET n == Len(log[c])
            IN  /\ \A i \in 1..n - 1 : IsBusyAnswer(log[c][i])
                /\ \A i \in 1..n : log[c][i].verb = "status"
                /\ pc[c] \in {"idle", "status", "sleep"}
                /\ pc[c] = "status" => Len(sleeps[c]) = n
                /\ pc[c] = "sleep" =>
                      /\ n > 0 /\ IsBusyAnswer(log[c][n])
                      /\ Len(sleeps[c]) = n - 1
                /\ pc[c] = "idle" =>
                      /\ n > 0 /\ IsIdleAnswer(log[c][n])
                      /\ Len(sleeps[c]) = n - 1
                      /\ outcome[c] = "returned"

\* C6: import_one_folder with wait=False and its four arguments given
\* sends the trigger request and nothing else: no status poll before it, and
\* the call is over as soon as the trigger request is answered.
C6_NoWaitOnlyTriggers ==
    \A c \in workload.clients :
        (call[c].op = "import_one_folder" /\ ~call[c].wait
                                          /\ AllGiven(call[c])) =>
            /\ sleeps[c] = <<>>
            /\ \/ pc[c] = "run" /\ log[c] = <<>>
               \/ /\ pc[c] = "idle"
                  /\ Len(log[c]) = 1
                  /\ log[c][1].verb = "run"
                  /\ outcome[c] \in {"returned", "HTTPError"}
                  /\ IsAccepted(log[c][1]) => outcome[c] = "returned"

\* the call has returned while the job it triggered runs on the server
C6_Witness ==
    /\ call[1].op = "import_one_folder" /\ ~call[1].wait
    /\ AllGiven(call[1])
    /\ outcome[1] = "returned"
    /\ Len(log[1]) = 1 /\ IsAccepted(log[1][1])
    /\ jobs[job[1]] = "running"

\* C9: a single client that only calls import_one_folder with wait=True
\* sends each trigger request right after a status poll of the same call
\* that answered 'Not Running', and so at most one job is in flight at any
\* time.
C9_SingleClientSingleJob ==
    /\ \A c \in workload.clients : \A i \in 1..Len(log[c]) :
          log[c][i].verb = "run" => i > 1 /\ SaidNotRunning(log[c][i - 1])
    /\ Cardinality(InFlight) <= 1

\* C10: with two clients nothing makes check-then-trigger atomic: a client
\* at line 186 got there on an answer 'Not Running', and its trigger request
\* can be sent whatever the other client has put in flight since.
C10_TriggerNotAtomic ==
    \A c \in workload.clients :
        pc[c] = "run" =>
            /\ log[c] # <<>>
            /\ SaidNotRunning(log[c][Len(log[c])])
            /\ ENABLED run(c)

\* both clients were answered 'Not Running' before the server had accepted
\* any job, then both sent their trigger: two jobs are in flight
C10_Witness ==
    /\ \A c \in Clients :
          /\ Len(log[c]) >= 2
          /\ IsIdleAnswer(log[c][1]) /\ log[c][1].accepted = 0
          /\ IsAccepted(log[c][2])
    /\ Cardinality(InFlight) = 2
    /\ \A j \in InFlight : jobs[j] = "running"

\* C13: import_status_wait has no maximum wait: whatever the number of
\* busy answers, after a busy answer the call is still under way (it has
\* neither returned nor raised) and goes on to its next poll.
C13_NoMaximumWait ==
    \A c \in workload.clients :
        (call[c].op = "import_status_wait" /\ call[c].wait /\ log[c] # <<>>
            /\ IsBusyAnswer(log[c][Len(log[c])])) =>
                /\ pc[c] \in {"sleep", "status"}
                /\ outcome[c] = "none"

\* C14: a request of a call that returns a non-success status is the last
\* request of that call, and the call is over with the request error: no
\* trigger after a failed status poll, no status poll after a failed trigger.
C14_FailFast ==
    \A c \in workload.clients : \A i \in 1..Len(log[c]) :
        ~IsSuccess(log[c][i].status) =>
            /\ i = Len(log[c])
            /\ pc[c] = "idle"
            /\ outcome[c] = "HTTPError"

\* C15: in import_status_wait(sleep=s) every suspension lasts s.
C15_EverySleepIsTheInterval ==
    \A c \in workload.clients :
        (call[c].op = "import_status_wait" /\ call[c].wait) =>
            \A i \in 1..Len(sleeps[c]) : sleeps[c][i] = call[c].sleep

\* ==================================================================
\* Properties of the document metadata operations
\* ==================================================================
\* C18: get_metadata and update_nuxeo_properties called with keywords that
\* are not exactly uid= or exactly path= raise before any request is sent.
C18_BadIdentifierRaisesBeforeNetwork ==
    (docCall.op # "none" /\ Keys(docCall.documentid) # {"uid"}
                         /\ Keys(docCall.documentid) # {"path"}) =>
        /\ docPc = "idle"
        /\ docOutcome \notin {"none", "returned"}
        /\ docLog = <<>>

====
